---- MODULE Spec2Model ----
(***************************************************************************)
(* A model of the request-execution core of the fauna Go driver:           *)
(*   - Client.doWithRetry        (retry on HTTP 429)                        *)
(*   - txnTime / SetLastTxnTime / GetLastTxnTime (last-txn-time watermark) *)
(*   - template.Parse            (query template parser)                    *)
(*   - getErrFauna               (error classification)                     *)
(*   - QueryIterator             (pagination)                               *)
(* Each component has its own specification (SpecRetry, SpecTxn, ...);     *)
(* the variables of the other components stay at their idle values.        *)
(* SpecQuery runs one request (string, doWithRetry, sync) beside the       *)
(* watermark calls of other goroutines.                                    *)
(***************************************************************************)
EXTENDS Integers, Sequences, FiniteSets, TLC

VARIABLES
    \* ---- Client.doWithRetry
    maxAttempts,    \* Client.maxAttempts
    stack,          \* attemptNumber of every active doWithRetry frame, outermost first
    rpc,            \* position of the innermost frame
    r,              \* status code of the response held in r (0: r is nil)
    err,            \* err: "nil", "transport" (c.http.Do failed), "drain" (io.Copy failed)
    retAttempts,    \* the attempts value returned by the outermost frame (0: not returned)
    sends,          \* number of c.http.Do calls made
    sleeps,         \* number of time.Sleep calls completed
    history,        \* what the transport answered to each send, in order
    cancel,         \* the request's context: "no" (not done), or where the call was
                    \* when it became done: "sleeping" (in time.Sleep) or "other"
    \* ---- txnTime (Client.lastTxnTime)
    Value,          \* txnTime.Value
    wowner,         \* the goroutine that holds or is acquiring the write lock (0: none)
    readers,        \* the goroutines that hold the read lock
    tpc,            \* position of every goroutine in its watermark call
    op,             \* the call every goroutine is in: [kind, arg]
    old,            \* sync's oldTxnTime / SetLastTxnTime's val > Value test, per goroutine
    got,            \* the value a GetLastTxnTime or string call has read, per goroutine
    floor,          \* the largest value a read had returned when this read was called
    lastRet,        \* the largest value any completed GetLastTxnTime has returned
    offered,        \* every candidate offered to sync or SetLastTxnTime so far
    calls,          \* number of watermark calls started
    header,         \* what the last txnTime.string call of every goroutine returned
    \* ---- template
    text,           \* template.text, a sequence of characters
    ppc,            \* "idle", "new" (newTemplate returned) or "parsed" (Parse returned)
    parsed,         \* what Parse returned: [parts, err, pos]
    \* ---- getErrFauna
    httpStatus,     \* the HTTP status getErrFauna is called with
    serviceError,   \* res.Error: [present, code, message]
    cpc,            \* "idle", "call" (about to classify) or "classified"
    classified,     \* what getErrFauna returned: [variant, statusCode, code, message]
    \* ---- QueryIterator
    fql,            \* QueryIterator.fql: [kind, after], kind "nil" for a nil query
    ipc,            \* "idle", "ready" (Paginate returned) or "crashed" (Next panicked)
    requests,       \* the query every Next call executed, in order
    pages,          \* the cursor (After) of every page Next returned, in order
    lastNext,       \* what the last Next call returned: [ok, page]
    lastData,       \* res.Data of the last Next call (NoData: its query failed)
    nexts,          \* number of Next calls made
    fails,          \* number of Next calls that returned an error
    \* ---- Client.backoff
    maxBackoff,     \* Client.maxBackoff, in milliseconds
    bAttempt,       \* the attempt backoff is called with
    jitter,         \* rand.Float64() in [0, 1), as the number of JitterDen-ths
    bpc,            \* "idle", "call" (about to compute) or "done"
    sleep           \* the duration backoff returned, in milliseconds

retryVars == <<maxAttempts, stack, rpc, r, err, retAttempts, sends, sleeps, history, cancel>>
txnVars == <<Value, wowner, readers, tpc, op, old, got, floor, lastRet, offered, calls,
             header>>

parseVars == <<text, ppc, parsed>>
classVars == <<httpStatus, serviceError, cpc, classified>>
iterVars == <<fql, ipc, requests, pages, lastNext, lastData, nexts, fails>>

backoffVars == <<maxBackoff, bAttempt, jitter, bpc, sleep>>

vars == <<retryVars, txnVars, parseVars, classVars, iterVars, backoffVars>>

otherThanRetry == <<txnVars, parseVars, classVars, iterVars, backoffVars>>
otherThanTxn == <<retryVars, parseVars, classVars, iterVars, backoffVars>>
otherThanParse == <<retryVars, txnVars, classVars, iterVars, backoffVars>>
otherThanClass == <<retryVars, txnVars, parseVars, iterVars, backoffVars>>
otherThanIter == <<retryVars, txnVars, parseVars, classVars, backoffVars>>
otherThanBackoff == <<retryVars, txnVars, parseVars, classVars, iterVars>>

----------------------------------------------------------------------------
(* Bounds of the model *)

\* largest configured Client.maxAttempts explored
MaxMaxAttempts == 3
\* largest attemptNumber a caller passes to doWithRetry
MaxStart == 2
\* number of goroutines that call the watermark operations concurrently
NProcs == 2
\* largest timestamp (microseconds) offered to the watermark
MaxTxn == 2
\* total number of watermark calls made
MaxCalls == 4
\* watermark calls in a behaviour of the fair specification
MaxFairCalls == 3
\* watermark calls made beside the request in a behaviour of the request specification
MaxQueryCalls == 1
\* longest template text parsed
MaxLen == 4
\* number of Next calls made on one iterator
MaxNext == 4
\* largest attempt number backoff is computed for
MaxBackoffAttempt == 5
\* resolution of the jitter: rand.Float64() takes the values j / JitterDen
JitterDen == 8

----------------------------------------------------------------------------
(* Client.doWithRetry *)

retryMaxAttemptsDefault == 3
StatusTooManyRequests == 429

\* what c.http.Do can give back: a response with a status, or a transport error
Statuses == {200, 429, 500}
TransportOutcomes ==
    {[fail |-> FALSE, status |-> s] : s \in Statuses} \cup {[fail |-> TRUE, status |-> 0]}

RetryIdle ==
    /\ maxAttempts = retryMaxAttemptsDefault
    /\ stack = << >>
    /\ rpc = "idle"
    /\ r = 0
    /\ err = "nil"
    /\ retAttempts = 0
    /\ sends = 0
    /\ sleeps = 0
    /\ history = << >>
    /\ cancel = "no"

\* NewClient: maxAttempts is retryMaxAttemptsDefault unless a config function overrides it
NewClientRetry ==
    /\ maxAttempts \in 1..MaxMaxAttempts
    /\ stack = << >>
    /\ rpc = "idle"
    /\ r = 0
    /\ err = "nil"
    /\ retAttempts = 0
    /\ sends = 0
    /\ sleeps = 0
    /\ history = << >>
    /\ cancel = "no"

attemptNumber == stack[Len(stack)]

\* the retry condition: attemptNumber <= c.maxAttempts and the status is 429
ShouldRetryBroken(n, status) ==
    n <= maxAttempts /\ status >= StatusTooManyRequests
ShouldRetry(n, status) ==
    n <= maxAttempts /\ status = StatusTooManyRequests

\* where the frame goes after c.http.Do: `if err != nil { return }`, then the switch
AfterSendBroken(o, n) ==
    IF o.fail THEN (IF n <= maxAttempts THEN "sleep" ELSE "return")
    ELSE IF ShouldRetry(n, o.status) THEN "drain" ELSE "return"
AfterSend(o, n) ==
    IF o.fail THEN "return"
    ELSE IF ShouldRetry(n, o.status) THEN "drain" ELSE "return"

\* a caller enters doWithRetry(req, n)
DoWithRetryCall(n) ==
    /\ rpc = "idle"
    /\ stack' = <<n>>
    /\ rpc' = "send"
    /\ UNCHANGED <<maxAttempts, r, err, retAttempts, sends, sleeps, history, cancel>>
    /\ UNCHANGED otherThanRetry

\* r, err = c.http.Do(req), then the test of err and of the retry condition; with
\* the request's context done, Do returns the context's error
Send(o) ==
    /\ rpc = "send"
    /\ cancel # "no" => o.fail
    /\ sends' = sends + 1
    /\ history' = Append(history, o)
    /\ IF o.fail
       THEN /\ r' = 0
            /\ err' = "transport"
       ELSE /\ r' = o.status
            /\ err' = "nil"
    /\ rpc' = AfterSend(o, attemptNumber)
    /\ UNCHANGED <<maxAttempts, stack, retAttempts, sleeps, cancel>>
    /\ UNCHANGED otherThanRetry

\* io.Copy(io.Discard, io.LimitReader(r.Body, 4096)): the drain of the 429 body
Drain(ok) ==
    /\ rpc = "drain"
    /\ IF ok
       THEN /\ rpc' = "sleep"
            /\ UNCHANGED err
       ELSE /\ err' = "drain"
            /\ rpc' = "return"
    /\ UNCHANGED <<maxAttempts, stack, r, retAttempts, sends, sleeps, history, cancel>>
    /\ UNCHANGED otherThanRetry

\* time.Sleep(c.backoff(attemptNumber)) ends; c.doWithRetry(req, attemptNumber+1) is entered
SleepAndRecurse ==
    /\ rpc = "sleep"
    /\ sleeps' = sleeps + 1
    /\ stack' = Append(stack, attemptNumber + 1)
    /\ rpc' = "send"
    /\ UNCHANGED <<maxAttempts, r, err, retAttempts, sends, history, cancel>>
    /\ UNCHANGED otherThanRetry

\* the context of the request becomes done (the caller cancels it, or its deadline
\* passes) while the call is in progress; nothing in doWithRetry waits on it
ContextDone ==
    /\ rpc \in {"send", "drain", "sleep", "return"}
    /\ cancel = "no"
    /\ cancel' = IF rpc = "sleep" THEN "sleeping" ELSE "other"
    /\ UNCHANGED <<maxAttempts, stack, rpc, r, err, retAttempts, sends, sleeps, history>>
    /\ UNCHANGED otherThanRetry

\* return: an inner frame hands r and err to its caller (its attempts is dropped: `_`),
\* the outermost frame returns attempts = its own attemptNumber
Return ==
    /\ rpc = "return"
    /\ IF Len(stack) > 1
       THEN /\ stack' = SubSeq(stack, 1, Len(stack) - 1)
            /\ UNCHANGED <<rpc, retAttempts>>
       ELSE /\ retAttempts' = stack[1]
            /\ rpc' = "done"
            /\ UNCHANGED stack
    /\ UNCHANGED <<maxAttempts, r, err, sends, sleeps, history, cancel>>
    /\ UNCHANGED otherThanRetry

----------------------------------------------------------------------------
(* txnTime: the last-txn-time watermark and its sync.RWMutex *)

Procs == 1..NProcs

Max(S) == CHOOSE x \in S : \A y \in S : y <= x

\* time.Time arguments of SetLastTxnTime, in nanoseconds since the epoch (one of
\* them before it)
Times == {500 * k : k \in (-1)..(2 * MaxTxn)}
\* time.Time.UnixMicro: whole microseconds, rounded down
UnixMicro(t) == t \div 1000
\* the timestamps sync is called with (microseconds parsed from the response header)
TxnTimes == 0..MaxTxn

NoOp == [kind |-> "none", arg |-> 0]

\* strconv.FormatInt(n, 10) of a non-negative n, as a sequence of characters
DigitChar(d) == <<"0", "1", "2", "3", "4", "5", "6", "7", "8", "9">>[d + 1]
RECURSIVE FormatInt(_)
FormatInt(n) ==
    IF n < 10 THEN <<DigitChar(n)>> ELSE Append(FormatInt(n \div 10), DigitChar(n % 10))

\* the empty string: no txnTime.string result is held
NoHeader == << >>

\* txnTime.string: the decimal form of a nonzero timestamp, "" for zero
txnTimeString(lastSeen) == IF lastSeen # 0 THEN FormatInt(lastSeen) ELSE NoHeader

\* txnTime{}: Value is zero, the lock is free
TxnIdle ==
    /\ Value = 0
    /\ wowner = 0
    /\ readers = {}
    /\ tpc = [p \in Procs |-> "idle"]
    /\ op = [p \in Procs |-> NoOp]
    /\ old = [p \in Procs |-> 0]
    /\ got = [p \in Procs |-> 0]
    /\ floor = [p \in Procs |-> 0]
    /\ lastRet = 0
    /\ offered = {}
    /\ calls = 0
    /\ header = [p \in Procs |-> NoHeader]

\* RWMutex.Lock can take the writer slot: no other writer holds or awaits the lock
CanLockBroken(p) == TRUE
CanLock(p) == wowner = 0

\* RWMutex.RLock can proceed: no writer holds or awaits the lock
CanRLock(p) == wowner = 0

\* a goroutine calls t.sync(v)
CallSync(p, v) ==
    /\ tpc[p] = "idle"
    /\ calls < MaxCalls
    /\ calls' = calls + 1
    /\ op' = [op EXCEPT ![p] = [kind |-> "sync", arg |-> v]]
    /\ offered' = offered \cup {v}
    /\ tpc' = [tpc EXCEPT ![p] = "lock"]
    /\ UNCHANGED <<Value, wowner, readers, old, got, floor, lastRet>>
    /\ header' = [header EXCEPT ![p] = NoHeader]
    /\ UNCHANGED otherThanTxn

\* a goroutine calls c.SetLastTxnTime(t); val := txnTime.UnixMicro()
CallSetLastTxnTime(p, t) ==
    /\ tpc[p] = "idle"
    /\ calls < MaxCalls
    /\ calls' = calls + 1
    /\ op' = [op EXCEPT ![p] = [kind |-> "set", arg |-> UnixMicro(t)]]
    /\ offered' = offered \cup {UnixMicro(t)}
    /\ tpc' = [tpc EXCEPT ![p] = "lock"]
    /\ UNCHANGED <<Value, wowner, readers, old, got, floor, lastRet>>
    /\ header' = [header EXCEPT ![p] = NoHeader]
    /\ UNCHANGED otherThanTxn

\* a goroutine calls c.lastTxnTime.string()
CallString(p) ==
    /\ tpc[p] = "idle"
    /\ calls < MaxCalls
    /\ calls' = calls + 1
    /\ op' = [op EXCEPT ![p] = [kind |-> "string", arg |-> 0]]
    /\ tpc' = [tpc EXCEPT ![p] = "rlock"]
    /\ header' = [header EXCEPT ![p] = NoHeader]
    /\ UNCHANGED <<Value, wowner, readers, old, got, floor, lastRet, offered>>
    /\ UNCHANGED otherThanTxn

\* a goroutine calls c.GetLastTxnTime()
CallGetLastTxnTime(p) ==
    /\ tpc[p] = "idle"
    /\ calls < MaxCalls
    /\ calls' = calls + 1
    /\ op' = [op EXCEPT ![p] = [kind |-> "get", arg |-> 0]]
    /\ floor' = [floor EXCEPT ![p] = lastRet]
    /\ tpc' = [tpc EXCEPT ![p] = "rlock"]
    /\ UNCHANGED <<Value, wowner, readers, old, got, lastRet, offered>>
    /\ header' = [header EXCEPT ![p] = NoHeader]
    /\ UNCHANGED otherThanTxn

\* t.Lock(), first half: take the writer slot, new readers are now held off
Lock(p) ==
    /\ tpc[p] = "lock"
    /\ CanLock(p)
    /\ wowner' = p
    /\ tpc' = [tpc EXCEPT ![p] = "lockwait"]
    /\ UNCHANGED <<Value, readers, op, old, got, floor, lastRet, offered, calls, header>>
    /\ UNCHANGED otherThanTxn

\* t.Lock(), second half: the active readers have left, the lock is held
LockAcquired(p) ==
    /\ tpc[p] = "lockwait"
    /\ readers = {}
    /\ tpc' = [tpc EXCEPT ![p] = IF op[p].kind = "sync" THEN "sync_load" ELSE "set_cmp"]
    /\ UNCHANGED <<Value, wowner, readers, op, old, got, floor, lastRet, offered, calls, header>>
    /\ UNCHANGED otherThanTxn

\* sync: oldTxnTime := atomic.LoadInt64(&t.Value)
SyncLoad(p) ==
    /\ tpc[p] = "sync_load"
    /\ old' = [old EXCEPT ![p] = Value]
    /\ tpc' = [tpc EXCEPT ![p] = "sync_cas"]
    /\ UNCHANGED <<Value, wowner, readers, op, got, floor, lastRet, offered, calls, header>>
    /\ UNCHANGED otherThanTxn

\* sync: if oldTxnTime >= newTxnTime || CompareAndSwapInt64(&t.Value, old, new) { break }
SyncCas(p) ==
    /\ tpc[p] = "sync_cas"
    /\ IF old[p] >= op[p].arg
       THEN /\ tpc' = [tpc EXCEPT ![p] = "unlock"]
            /\ UNCHANGED Value
       ELSE IF Value = old[p]
       THEN /\ Value' = op[p].arg
            /\ tpc' = [tpc EXCEPT ![p] = "unlock"]
       ELSE /\ tpc' = [tpc EXCEPT ![p] = "sync_load"]
            /\ UNCHANGED Value
    /\ UNCHANGED <<wowner, readers, op, old, got, floor, lastRet, offered, calls, header>>
    /\ UNCHANGED otherThanTxn

\* SetLastTxnTime: val > c.lastTxnTime.Value
IsNewerBroken(val, cur) == val # cur
IsNewer(val, cur) == val > cur

\* SetLastTxnTime: the test of val against the stored timestamp
SetCompare(p) ==
    /\ tpc[p] = "set_cmp"
    /\ tpc' = [tpc EXCEPT ![p] = IF IsNewer(op[p].arg, Value) THEN "set_write" ELSE "unlock"]
    /\ UNCHANGED <<Value, wowner, readers, op, old, got, floor, lastRet, offered, calls, header>>
    /\ UNCHANGED otherThanTxn

\* SetLastTxnTime: c.lastTxnTime.Value = val
SetWrite(p) ==
    /\ tpc[p] = "set_write"
    /\ Value' = op[p].arg
    /\ tpc' = [tpc EXCEPT ![p] = "unlock"]
    /\ UNCHANGED <<wowner, readers, op, old, got, floor, lastRet, offered, calls, header>>
    /\ UNCHANGED otherThanTxn

\* RWMutex.Unlock: the writer slot after the holder's release
AfterUnlockBroken(p) == wowner
AfterUnlock(p) == 0

\* RWMutex.RUnlock: the read holders after p's release
AfterRUnlockBroken(p) == readers
AfterRUnlock(p) == readers \ {p}

\* the deferred t.Unlock(), and the return of sync or SetLastTxnTime
Unlock(p) ==
    /\ tpc[p] = "unlock"
    /\ wowner' = AfterUnlock(p)
    /\ tpc' = [tpc EXCEPT ![p] = "idle"]
    /\ op' = [op EXCEPT ![p] = NoOp]
    /\ old' = [old EXCEPT ![p] = 0]
    /\ UNCHANGED <<Value, readers, got, floor, lastRet, offered, calls, header>>
    /\ UNCHANGED otherThanTxn

\* c.lastTxnTime.RLock() in GetLastTxnTime, t.RLock() in string
RLock(p) ==
    /\ tpc[p] = "rlock"
    /\ CanRLock(p)
    /\ readers' = readers \cup {p}
    /\ tpc' = [tpc EXCEPT ![p] = IF op[p].kind = "get" THEN "get_read" ELSE "str_load"]
    /\ UNCHANGED <<Value, wowner, op, old, got, floor, lastRet, offered, calls, header>>
    /\ UNCHANGED otherThanTxn

\* GetLastTxnTime: the read of c.lastTxnTime.Value for the return statement
GetRead(p) ==
    /\ tpc[p] = "get_read"
    /\ got' = [got EXCEPT ![p] = Value]
    /\ tpc' = [tpc EXCEPT ![p] = "runlock"]
    /\ UNCHANGED <<Value, wowner, readers, op, old, floor, lastRet, offered, calls, header>>
    /\ UNCHANGED otherThanTxn

\* string: lastSeen := atomic.LoadInt64(&t.Value)
StringLoad(p) ==
    /\ tpc[p] = "str_load"
    /\ got' = [got EXCEPT ![p] = Value]
    /\ tpc' = [tpc EXCEPT ![p] = "runlock"]
    /\ UNCHANGED <<Value, wowner, readers, op, old, floor, lastRet, offered, calls, header>>
    /\ UNCHANGED otherThanTxn

\* the deferred RUnlock(), and the return of the value read: the timestamp from
\* GetLastTxnTime, its decimal form (or "") from string
RUnlock(p) ==
    /\ tpc[p] = "runlock"
    /\ op[p].kind \in {"get", "string"}
    /\ readers' = AfterRUnlock(p)
    /\ lastRet' = IF op[p].kind = "get" THEN Max({lastRet, got[p]}) ELSE lastRet
    /\ header' = IF op[p].kind = "string"
                 THEN [header EXCEPT ![p] = txnTimeString(got[p])]
                 ELSE header
    /\ tpc' = [tpc EXCEPT ![p] = "idle"]
    /\ op' = [op EXCEPT ![p] = NoOp]
    /\ got' = [got EXCEPT ![p] = 0]
    /\ floor' = [floor EXCEPT ![p] = 0]
    /\ UNCHANGED <<Value, wowner, old, offered, calls>>
    /\ UNCHANGED otherThanTxn

\* the one request modelled is made through the client: the consistency header is
\* read from the watermark with string before the request is sent
CallQuery(p) ==
    /\ tpc[p] = "idle"
    /\ rpc = "idle"
    /\ \A q \in Procs : op[q].kind # "query"
    /\ calls + 2 <= MaxCalls
    /\ calls' = calls + 2
    /\ op' = [op EXCEPT ![p] = [kind |-> "query", arg |-> 0]]
    /\ tpc' = [tpc EXCEPT ![p] = "rlock"]
    /\ header' = [header EXCEPT ![p] = NoHeader]
    /\ UNCHANGED <<Value, wowner, readers, old, got, floor, lastRet, offered>>
    /\ UNCHANGED otherThanTxn

\* string returns to the request (its deferred RUnlock has run), and the request
\* enters doWithRetry(req, 1)
QuerySend(p) ==
    /\ tpc[p] = "runlock"
    /\ op[p].kind = "query"
    /\ readers' = AfterRUnlock(p)
    /\ header' = [header EXCEPT ![p] = txnTimeString(got[p])]
    /\ got' = [got EXCEPT ![p] = 0]
    /\ tpc' = [tpc EXCEPT ![p] = "request"]
    /\ stack' = <<1>>
    /\ rpc' = "send"
    /\ UNCHANGED <<Value, wowner, op, old, floor, lastRet, offered, calls>>
    /\ UNCHANGED <<maxAttempts, r, err, retAttempts, sends, sleeps, history, cancel>>
    /\ UNCHANGED <<parseVars, classVars, iterVars, backoffVars>>

\* doWithRetry has returned: with a response that carries a consistency timestamp v
\* the request calls sync(v), otherwise it returns
QueryResponse(p, present, v) ==
    /\ tpc[p] = "request"
    /\ rpc = "done"
    /\ IF err = "nil" /\ present
       THEN /\ op' = [op EXCEPT ![p] = [kind |-> "sync", arg |-> v]]
            /\ offered' = offered \cup {v}
            /\ tpc' = [tpc EXCEPT ![p] = "lock"]
       ELSE /\ op' = [op EXCEPT ![p] = NoOp]
            /\ tpc' = [tpc EXCEPT ![p] = "idle"]
            /\ UNCHANGED offered
    /\ UNCHANGED <<Value, wowner, readers, old, got, floor, lastRet, calls, header>>
    /\ UNCHANGED otherThanTxn

\* one step of goroutine p inside a watermark call it has started
TxnStep(p) ==
    \/ LockAcquired(p)
    \/ SyncLoad(p)
    \/ SyncCas(p)
    \/ SetCompare(p)
    \/ SetWrite(p)
    \/ Unlock(p)
    \/ GetRead(p)
    \/ StringLoad(p)
    \/ RUnlock(p)


----------------------------------------------------------------------------
(* template: newTemplate and Parse *)

\* the characters of the template texts explored: the three the pattern names,
\* two of the class [_a-zA-Z0-9] and one outside it
Alphabet == {"$", "{", "}", "a", "_", "."}
Templates == UNION {[1..n -> Alphabet] : n \in 0..MaxLen}

templateVariable == "variable"
templateLiteral == "literal"

NoResult == [parts |-> << >>, err |-> FALSE, pos |-> -1]

ParseIdle ==
    /\ text = << >>
    /\ ppc = "idle"
    /\ parsed = NoResult

\* the class [_a-zA-Z0-9] of the group `braced`
IsNameChar(c) == c \in {"_", "a"}

\* t.text[a:b], a and b byte offsets from 0
Slice(t, a, b) == SubSeq(t, a + 1, b)

\* the offset of the first `$` at or after offset from (Len(t): there is none)
RECURSIVE NextDollar(_, _)
NextDollar(t, from) ==
    IF from >= Len(t) THEN Len(t)
    ELSE IF t[from + 1] = "$" THEN from
    ELSE NextDollar(t, from + 1)

\* the end of the longest run of [_a-zA-Z0-9] that starts at offset from
RECURSIVE NameEnd(_, _)
NameEnd(t, from) ==
    IF from < Len(t) /\ IsNameChar(t[from + 1]) THEN NameEnd(t, from + 1) ELSE from

\* the pattern \$(?:(?P<escaped>\$)|{(?P<braced>[_a-zA-Z0-9]*)}|(?P<invalid>)) matched
\* at the `$` at offset i, alternatives tried left to right: the match's start and end,
\* the text of the groups escaped and braced, and the start of the group invalid
\* (-1: the group took no part in the match)
MatchAt(t, i) ==
    IF i + 1 < Len(t) /\ t[i + 2] = "$"
    THEN [start |-> i, end |-> i + 2, escaped |-> <<"$">>, braced |-> << >>,
          isBraced |-> FALSE, invalid |-> -1]
    ELSE IF /\ i + 1 < Len(t) /\ t[i + 2] = "{"
            /\ NameEnd(t, i + 2) < Len(t)
            /\ t[NameEnd(t, i + 2) + 1] = "}"
    THEN [start |-> i, end |-> NameEnd(t, i + 2) + 1, escaped |-> << >>,
          braced |-> Slice(t, i + 2, NameEnd(t, i + 2)),
          isBraced |-> TRUE, invalid |-> -1]
    ELSE [start |-> i, end |-> i + 1, escaped |-> << >>, braced |-> << >>,
          isBraced |-> FALSE, invalid |-> i + 1]

\* FindAllStringSubmatch / FindAllStringSubmatchIndex: the successive matches that do
\* not overlap, each searched from the end of the one before
RECURSIVE FindAll(_, _)
FindAll(t, from) ==
    IF NextDollar(t, from) >= Len(t) THEN << >>
    ELSE <<MatchAt(t, NextDollar(t, from))>>
            \o FindAll(t, MatchAt(t, NextDollar(t, from)).end)

\* if currentPosition < matchStartPos: the literal part text[cur:start] + escaped
LiteralBefore(t, cur, m) ==
    IF cur < m.start
    THEN <<[Text |-> Slice(t, cur, m.start) \o m.escaped, Category |-> templateLiteral]>>
    ELSE << >>

\* if len(variable) > 0: the variable part
VariablePart(m) ==
    IF Len(m.braced) > 0
    THEN <<[Text |-> m.braced, Category |-> templateVariable]>>
    ELSE << >>

\* if currentPosition < end: the literal part text[cur:]
TrailingLiteralBroken(t, cur) ==
    IF cur <= Len(t)
    THEN <<[Text |-> Slice(t, cur, Len(t)), Category |-> templateLiteral]>>
    ELSE << >>
TrailingLiteral(t, cur) ==
    IF cur < Len(t)
    THEN <<[Text |-> Slice(t, cur, Len(t)), Category |-> templateLiteral]>>
    ELSE << >>

\* the loop over the matches from the i-th on, with currentPosition and parts so far
RECURSIVE ParseLoop(_, _, _, _, _)
ParseLoop(t, ms, i, cur, parts) ==
    IF i > Len(ms)
    THEN [parts |-> parts \o TrailingLiteral(t, cur), err |-> FALSE, pos |-> -1]
    ELSE IF ms[i].invalid >= 0
    THEN [parts |-> << >>, err |-> TRUE, pos |-> ms[i].invalid]
    ELSE ParseLoop(t, ms, i + 1, ms[i].end,
                   parts \o LiteralBefore(t, cur, ms[i]) \o VariablePart(ms[i]))

\* template.Parse
Parse(t) == ParseLoop(t, FindAll(t, 0), 1, 0, << >>)

\* newTemplate(text)
NewTemplate ==
    /\ text \in Templates
    /\ ppc = "new"
    /\ parsed = NoResult

\* t.Parse() is called and returns
ParseCall ==
    /\ ppc = "new"
    /\ parsed' = Parse(text)
    /\ ppc' = "parsed"
    /\ UNCHANGED text
    /\ UNCHANGED otherThanParse

----------------------------------------------------------------------------
(* getErrFauna: the classification of a response into an error variant.         *)
(* Its code is not among the sources; it is modelled from the specification's    *)
(* table (status first, then code), with the type names of TestGetErrFauna.      *)

StatusBadRequest == 400
StatusUnauthorized == 401
StatusForbidden == 403
StatusConflict == 409
StatusQueryTimeout == 440
StatusInternalServerError == 500
StatusServiceUnavailable == 503

HttpStatuses == {200, 201, 400, 401, 403, 404, 409, 429, 440, 500, 502, 503}
Codes == {"", "invalid_query", "invalid_argument", "invalid_request", "abort",
          "contended_transaction", "unknown_code"}
Messages == {"", "Transaction was aborted"}

NoServiceError == [present |-> FALSE, code |-> "", message |-> ""]
ServiceErrors ==
    {NoServiceError} \cup {[present |-> TRUE, code |-> c, message |-> m] : c \in Codes, m \in Messages}

NoError == [variant |-> "nil", statusCode |-> 0, code |-> "", message |-> ""]

ClassIdle ==
    /\ httpStatus = 200
    /\ serviceError = NoServiceError
    /\ cpc = "idle"
    /\ classified = NoError

Is2xx(status) == status >= 200 /\ status < 300

\* the variant for a status and a code
VariantOf(status, e) ==
    IF status = StatusBadRequest THEN
        CASE e.code = "invalid_query" -> "ErrQueryCheck"
          [] e.code = "invalid_argument" -> "ErrQueryRuntime"
          [] e.code = "invalid_request" -> "ErrInvalidRequest"
          [] e.code = "abort" -> "ErrAbort"
          [] OTHER -> "ErrFauna"
    ELSE IF status = StatusUnauthorized THEN "ErrAuthentication"
    ELSE IF status = StatusForbidden THEN "ErrAuthorization"
    ELSE IF status = StatusConflict THEN
        (IF e.code = "contended_transaction" THEN "ErrContendedTransaction" ELSE "ErrFauna")
    ELSE IF status = StatusTooManyRequests THEN "ErrThrottling"
    ELSE IF status = StatusQueryTimeout THEN "ErrQueryTimeout"
    ELSE IF status = StatusInternalServerError THEN "ErrServiceInternal"
    ELSE IF status = StatusServiceUnavailable THEN "ErrServiceTimeout"
    ELSE "ErrFauna"

\* the status recorded on the error
RecordedStatusBroken(status, variant) == IF variant = "ErrFauna" THEN 0 ELSE status
RecordedStatus(status, variant) == status

\* getErrFauna(httpStatus, res): no error for a 2xx response without a service
\* error, otherwise the variant with the status, code and message recorded
getErrFaunaBroken(status, e) ==
    IF Is2xx(status) /\ ~e.present THEN NoError
    ELSE [variant |-> IF status = StatusConflict THEN "ErrFauna" ELSE VariantOf(status, e),
          statusCode |-> RecordedStatus(status, VariantOf(status, e)),
          code |-> e.code, message |-> e.message]
getErrFauna(status, e) ==
    IF Is2xx(status) /\ ~e.present THEN NoError
    ELSE [variant |-> VariantOf(status, e),
          statusCode |-> RecordedStatus(status, VariantOf(status, e)),
          code |-> e.code, message |-> e.message]

\* the cases of TestGetErrFauna: status, service error code and message, and the
\* error type the test expects ("nil": wantErr is false)
TestGetErrFaunaCases == {
    [httpStatus |-> 200, present |-> FALSE, code |-> "", message |-> "", errType |-> "nil"],
    [httpStatus |-> 400, present |-> TRUE, code |-> "invalid_query", message |-> "",
        errType |-> "ErrQueryCheck"],
    [httpStatus |-> 400, present |-> TRUE, code |-> "invalid_argument", message |-> "",
        errType |-> "ErrQueryRuntime"],
    [httpStatus |-> 400, present |-> TRUE, code |-> "invalid_request", message |-> "",
        errType |-> "ErrInvalidRequest"],
    [httpStatus |-> 400, present |-> TRUE, code |-> "abort", message |-> "",
        errType |-> "ErrAbort"],
    [httpStatus |-> 401, present |-> TRUE, code |-> "", message |-> "",
        errType |-> "ErrAuthentication"],
    [httpStatus |-> 403, present |-> TRUE, code |-> "", message |-> "",
        errType |-> "ErrAuthorization"],
    [httpStatus |-> 429, present |-> TRUE, code |-> "", message |-> "",
        errType |-> "ErrThrottling"],
    [httpStatus |-> 440, present |-> TRUE, code |-> "", message |-> "",
        errType |-> "ErrQueryTimeout"],
    [httpStatus |-> 500, present |-> TRUE, code |-> "", message |-> "",
        errType |-> "ErrServiceInternal"],
    [httpStatus |-> 503, present |-> TRUE, code |-> "", message |-> "",
        errType |-> "ErrServiceTimeout"],
    [httpStatus |-> 409, present |-> TRUE, code |-> "contended_transaction",
        message |-> "Transaction was aborted", errType |-> "ErrContendedTransaction"]
    }

\* a response arrives: its status and its decoded service error, if any
ResponseToClassify ==
    /\ httpStatus \in HttpStatuses
    /\ serviceError \in ServiceErrors
    /\ cpc = "call"
    /\ classified = NoError

\* getErrFauna(httpStatus, res) is called and returns
Classify ==
    /\ cpc = "call"
    /\ classified' = getErrFauna(httpStatus, serviceError)
    /\ cpc' = "classified"
    /\ UNCHANGED <<httpStatus, serviceError>>
    /\ UNCHANGED otherThanClass

----------------------------------------------------------------------------
(* QueryIterator: Paginate, Next, nextPage, HasNext *)

Cursors == {"", "a", "b"}

NilQuery == [kind |-> "nil", after |-> ""]
\* the query the caller hands to Paginate
OriginalQuery == [kind |-> "original", after |-> ""]
\* FQL(`Set.paginate(${after})`, map[string]any{"after": after})
PaginateQuery(after) == [kind |-> "paginate", after |-> after]

NoPage == [After |-> "", Data |-> "none"]
NoNext == [ok |-> FALSE, page |-> NoPage]

\* res.Data of a successful Query: a *Page, a map[string]any (with or without a
\* string "after", with or without a "data" slice), or any other value
Payloads ==
    {[shape |-> "page", hasAfter |-> TRUE, after |-> c, hasData |-> TRUE] : c \in Cursors}
    \cup {[shape |-> "map", hasAfter |-> TRUE, after |-> c, hasData |-> d] :
            c \in Cursors, d \in BOOLEAN}
    \cup {[shape |-> "map", hasAfter |-> FALSE, after |-> "", hasData |-> d] : d \in BOOLEAN}
    \cup {[shape |-> "other", hasAfter |-> FALSE, after |-> "", hasData |-> FALSE]}

NoData == [shape |-> "none", hasAfter |-> FALSE, after |-> "", hasData |-> FALSE]

IterIdle ==
    /\ fql = NilQuery
    /\ ipc = "idle"
    /\ requests = << >>
    /\ pages = << >>
    /\ lastNext = NoNext
    /\ lastData = NoData
    /\ nexts = 0
    /\ fails = 0

\* Client.Paginate(fql): the iterator holds the caller's query
Paginate ==
    /\ fql = OriginalQuery
    /\ ipc = "ready"
    /\ requests = << >>
    /\ pages = << >>
    /\ lastNext = NoNext
    /\ lastData = NoData
    /\ nexts = 0
    /\ fails = 0

\* QueryIterator.HasNext
HasNext == fql.kind # "nil"

\* QueryIterator.nextPage(after): the value of q.fql it leaves
nextPageBroken(after) == PaginateQuery(after)
nextPageStale(after) ==
    IF after = "" THEN NilQuery
    ELSE IF fql.kind = "paginate" THEN fql
    ELSE PaginateQuery(after)
nextPage(after) ==
    IF after = "" THEN NilQuery ELSE PaginateQuery(after)

\* the page Next makes of res.Data
PageOf(d) ==
    IF d.shape = "page" THEN [After |-> d.after, Data |-> "items"]
    ELSE IF d.shape = "map"
    THEN [After |-> IF d.hasAfter THEN d.after ELSE "", Data |-> "items"]
    ELSE [After |-> "", Data |-> "payload"]

\* results["data"].([]any) on a map without a "data" slice: the assertion panics
Panics(d) == d.shape = "map" /\ ~d.hasData

\* q.fql after `return nil, queryErr`: Next has not touched it
FqlAfterQueryErrorBroken == NilQuery
FqlAfterQueryError == fql

\* Next is called while HasNext is true: with q.fql cleared there is no query to
\* execute, and what Next does then is left to the caller to avoid.
\* Next when q.client.Query returns an error: the error is returned
NextQueryError ==
    /\ ipc = "ready"
    /\ HasNext
    /\ nexts < MaxNext
    /\ nexts' = nexts + 1
    /\ fails' = fails + 1
    /\ requests' = Append(requests, fql)
    /\ lastNext' = NoNext
    /\ lastData' = NoData
    /\ fql' = FqlAfterQueryError
    /\ UNCHANGED <<ipc, pages>>
    /\ UNCHANGED otherThanIter

\* Next when q.client.Query succeeds with res.Data = d
NextPage(d) ==
    /\ ipc = "ready"
    /\ HasNext
    /\ nexts < MaxNext
    /\ nexts' = nexts + 1
    /\ requests' = Append(requests, fql)
    /\ lastData' = d
    /\ IF Panics(d)
       THEN /\ ipc' = "crashed"
            /\ UNCHANGED <<fql, pages, lastNext>>
       ELSE /\ fql' = nextPage(PageOf(d).After)
            /\ pages' = Append(pages, PageOf(d).After)
            /\ lastNext' = [ok |-> TRUE, page |-> PageOf(d)]
            /\ UNCHANGED ipc
    /\ UNCHANGED fails
    /\ UNCHANGED otherThanIter

----------------------------------------------------------------------------
(* Client.backoff; durations are counted in milliseconds *)

\* time.Second
Second == 1000
\* retryMaxBackoffDefault = time.Second * 20
retryMaxBackoffDefault == Second * 20

\* the values of Client.maxBackoff explored
MaxBackoffs == {Second * 3, retryMaxBackoffDefault}

BackoffIdle ==
    /\ maxBackoff = retryMaxBackoffDefault
    /\ bAttempt = 0
    /\ jitter = 0
    /\ bpc = "idle"
    /\ sleep = 0

\* math.Pow(2, float64(attempt))
RECURSIVE Pow2(_)
Pow2(n) == IF n = 0 THEN 1 ELSE 2 * Pow2(n - 1)

\* time.Duration(mult): the float64 mult = 2^attempt * jitter converted to an
\* integer, the fraction cut off
DurationOf(attempt, j) == (Pow2(attempt) * j) \div JitterDen

\* Client.backoff(attempt) with jitter j / JitterDen and maxBackoff maxB
backoff(attempt, j, maxB) ==
    IF DurationOf(attempt, j) * Second > maxB
    THEN maxB
    ELSE DurationOf(attempt, j) * Second

\* c.backoff(attempt) is about to run: the client's maxBackoff, the attempt, and
\* the jitter rand.Float64() is going to return
BackoffInputs ==
    /\ maxBackoff \in MaxBackoffs
    /\ bAttempt \in 1..MaxBackoffAttempt
    /\ jitter \in 0..(JitterDen - 1)
    /\ bpc = "call"
    /\ sleep = 0

\* c.backoff(attempt) runs and returns
BackoffCall ==
    /\ bpc = "call"
    /\ sleep' = backoff(bAttempt, jitter, maxBackoff)
    /\ bpc' = "done"
    /\ UNCHANGED <<maxBackoff, bAttempt, jitter>>
    /\ UNCHANGED otherThanBackoff

----------------------------------------------------------------------------
(* Properties of Client.doWithRetry *)

All429 ==
    \A i \in 1..Len(history) : ~history[i].fail /\ history[i].status = StatusTooManyRequests

\* C1: when every send is answered with 429 (and every drain succeeds) and the call
\* started at attempt number 1, the finished call has made exactly maxAttempts sends
\* and returns the last 429 response.
RetryCeiling ==
    (rpc = "done" /\ stack[1] = 1 /\ All429 /\ err = "nil")
        => (sends = maxAttempts /\ r = StatusTooManyRequests)

LastOutcome == history[Len(history)]

\* the last send failed at the transport level
TransportFailed == history # << >> /\ LastOutcome.fail

\* C11: a send that fails at the transport level, on the first attempt or on a
\* retry, is the last one: the error is returned with no response, and no send and
\* no sleep follows it.
TransportFailureNotRetried ==
    /\ [](\A i \in 1..Len(history) : history[i].fail => i = Len(history))
    /\ [](TransportFailed => (err = "transport" /\ r = 0 /\ rpc \in {"return", "done"}))
    /\ [][TransportFailed => (sends' = sends /\ sleeps' = sleeps /\ err' = err /\ r' = r)]_vars

\* a retry failed at the transport level and the call has returned the error
TransportFailureNotRetriedWitness ==
    /\ rpc = "done"
    /\ err = "transport"
    /\ sends > 1
    /\ sleeps = sends - 1

\* the last send was answered, with a status other than 429
AnsweredNot429 ==
    history # << >> /\ ~LastOutcome.fail /\ LastOutcome.status # StatusTooManyRequests

\* C12: a response with a status other than 429, on whichever attempt, is returned
\* as it is, with no sleep and no send after it; a call whose first response is not
\* 429 makes exactly one send.
OnlyThrottlingRetried ==
    /\ [](AnsweredNot429 =>
            (r = LastOutcome.status /\ err = "nil" /\ rpc \in {"return", "done"}))
    /\ [][AnsweredNot429 => (sends' = sends /\ sleeps' = sleeps /\ r' = r /\ err' = err)]_vars
    /\ []((rpc = "done" /\ ~history[1].fail /\ history[1].status # StatusTooManyRequests)
            => sends = 1)

\* a 500 answered a retry that was still allowed, and was returned
OnlyThrottlingRetriedWitness ==
    /\ rpc = "done"
    /\ r = 500
    /\ sends = 2
    /\ sleeps = 1
    /\ stack[1] + 1 <= maxAttempts

\* C16: when the context of the request becomes done during the backoff sleep, the
\* sleep is cut short and the call returns: the sleep does not run to its end and
\* no send follows.
CancelAbortsSleep ==
    [][cancel = "sleeping" => (sleeps' = sleeps /\ sends' = sends)]_vars

\* C20: the attempts value doWithRetry returns is the attempt number of the last
\* send it made: the attempt number it was called with plus the retries made.
AttemptsIsLastAttempt ==
    rpc = "done" => retAttempts = stack[1] + sleeps

----------------------------------------------------------------------------
(* Properties of Client.backoff *)

\* 2^attempt * jitter seconds, to the millisecond
ExactBackoff(attempt, j) == (Pow2(attempt) * j * Second) \div JitterDen

\* C15: backoff(n) is min(maxBackoff, 2^n * u seconds), the product not rounded to
\* whole seconds, and never more than maxBackoff.
BackoffIsExact ==
    bpc = "done" =>
        /\ sleep = IF ExactBackoff(bAttempt, jitter) > maxBackoff
                   THEN maxBackoff
                   ELSE ExactBackoff(bAttempt, jitter)
        /\ sleep <= maxBackoff

----------------------------------------------------------------------------
(* Properties of the watermark *)

AllReturned == \A p \in Procs : tpc[p] = "idle"

\* C2: once every sync and SetLastTxnTime call has returned, the watermark is the
\* maximum of zero (its value at client creation) and every candidate offered.
NoLostUpdate ==
    AllReturned => Value = Max({0} \cup offered)

\* all calls were made, several candidates were offered, the last ones concurrently
NoLostUpdateWitness ==
    /\ AllReturned
    /\ calls = MaxCalls
    /\ Cardinality(offered) > 1
    /\ Value = MaxTxn

\* a read that is about to return: it never returns less than an earlier read returned
ReadsOrdered ==
    \A p \in Procs : tpc[p] = "runlock" => got[p] >= floor[p]

\* C3: the watermark never decreases in a step, and a GetLastTxnTime call never
\* returns less than a GetLastTxnTime call that had returned before it was made.
MonotonicWatermark ==
    [][Value' >= Value]_vars /\ []ReadsOrdered

\* a read returns more than the earlier read did: the watermark moved in between
MonotonicWatermarkWitness ==
    \E p \in Procs : tpc[p] = "runlock" /\ floor[p] > 0 /\ got[p] > floor[p]

----------------------------------------------------------------------------
(* Properties of template.Parse *)

\* every `$` of t from offset i on is the first or second character of a `$$` pair
RECURSIVE OnlyPairs(_, _)
OnlyPairs(t, i) ==
    IF i >= Len(t) THEN TRUE
    ELSE IF t[i + 1] # "$" THEN OnlyPairs(t, i + 1)
    ELSE i + 1 < Len(t) /\ t[i + 2] = "$" /\ OnlyPairs(t, i + 2)

\* the number of `$` characters in a text
RECURSIVE Dollars(_)
Dollars(t) ==
    IF t = << >> THEN 0
    ELSE (IF Head(t) = "$" THEN 1 ELSE 0) + Dollars(Tail(t))

\* the number of `$` characters in the literal parts
RECURSIVE LiteralDollars(_)
LiteralDollars(parts) ==
    IF parts = << >> THEN 0
    ELSE (IF Head(parts).Category = templateLiteral THEN Dollars(Head(parts).Text) ELSE 0)
            + LiteralDollars(Tail(parts))

NoVariablePart(parts) ==
    \A i \in 1..Len(parts) : parts[i].Category # templateVariable

\* C4: for a template in which every `$` belongs to a `$$` pair, Parse fails on
\* nothing, emits no variable part, and the literal parts hold exactly one `$` for
\* each `$$` of the template.
EscapeCollapses ==
    (ppc = "parsed" /\ OnlyPairs(text, 0))
        => /\ ~parsed.err
           /\ NoVariablePart(parsed.parts)
           /\ 2 * LiteralDollars(parsed.parts) = Dollars(text)

\* `${`, a run of name characters and `}` stand at offset i
WellFormedBrace(t, i) ==
    /\ i + 1 < Len(t) /\ t[i + 2] = "{"
    /\ NameEnd(t, i + 2) < Len(t)
    /\ t[NameEnd(t, i + 2) + 1] = "}"

\* the offset of the first `$`, reading from offset i, that is followed neither by
\* `$` nor by a well-formed `{name}` (-1: there is none)
RECURSIVE FirstBadDollar(_, _)
FirstBadDollar(t, i) ==
    IF i >= Len(t) THEN -1
    ELSE IF t[i + 1] # "$" THEN FirstBadDollar(t, i + 1)
    ELSE IF i + 1 < Len(t) /\ t[i + 2] = "$" THEN FirstBadDollar(t, i + 2)
    ELSE IF WellFormedBrace(t, i) THEN FirstBadDollar(t, NameEnd(t, i + 2) + 1)
    ELSE i

\* C5: for a template with an offending `$`, Parse returns no parts and an error
\* whose position is the byte offset of that `$`.
ErrorPositionIsDollarOffset ==
    (ppc = "parsed" /\ FirstBadDollar(text, 0) >= 0)
        => /\ parsed.err
           /\ parsed.parts = << >>
           /\ parsed.pos = FirstBadDollar(text, 0)

HasPlaceholder(t) ==
    \E i \in 1..Len(FindAll(t, 0)) : FindAll(t, 0)[i].isBraced

OneLiteralOrNone(t) ==
    IF t = << >> THEN << >> ELSE <<[Text |-> t, Category |-> templateLiteral]>>

\* C6, as claimed: for a valid template with no `${...}` placeholder, `$$` escapes
\* allowed, Parse returns exactly one literal part equal to the input, and no part
\* for the empty text.
NoPlaceholderOneLiteral ==
    (ppc = "parsed" /\ ~parsed.err /\ ~HasPlaceholder(text))
        => parsed.parts = OneLiteralOrNone(text)

\* C6, amended: for a template with no `$` at all, Parse returns exactly one literal
\* part equal to the input, and no part for the empty text.
NoDollarOneLiteral ==
    (ppc = "parsed" /\ Dollars(text) = 0)
        => /\ ~parsed.err
           /\ parsed.parts = OneLiteralOrNone(text)

\* a text of several characters, none a `$`, has been parsed
NoDollarOneLiteralWitness ==
    /\ ppc = "parsed"
    /\ Dollars(text) = 0
    /\ Len(text) > 1
    /\ Len(parsed.parts) = 1

\* the names of the `${name}` matches, in order
RECURSIVE BracedNames(_)
BracedNames(ms) ==
    IF ms = << >> THEN << >>
    ELSE (IF Head(ms).isBraced THEN <<Head(ms).braced>> ELSE << >>) \o BracedNames(Tail(ms))

\* the names of the variable parts, in order
RECURSIVE VariableNames(_)
VariableNames(parts) ==
    IF parts = << >> THEN << >>
    ELSE (IF Head(parts).Category = templateVariable THEN <<Head(parts).Text>> ELSE << >>)
            \o VariableNames(Tail(parts))

\* C7: every variable match gives one variable part with the captured name, in
\* order of appearance, the empty name of `${}` included.
VariablePartPerMatch ==
    (ppc = "parsed" /\ ~parsed.err)
        => VariableNames(parsed.parts) = BracedNames(FindAll(text, 0))

----------------------------------------------------------------------------
(* Properties of getErrFauna *)

Variants == {"ErrQueryCheck", "ErrQueryRuntime", "ErrInvalidRequest", "ErrAbort",
             "ErrAuthentication", "ErrAuthorization", "ErrContendedTransaction",
             "ErrThrottling", "ErrQueryTimeout", "ErrServiceInternal",
             "ErrServiceTimeout", "ErrFauna"}

\* the variant the table names for a status and a code ("": the table has no row)
TableVariant(status, code) ==
    CASE status = 400 /\ code = "invalid_query" -> "ErrQueryCheck"
      [] status = 400 /\ code = "invalid_argument" -> "ErrQueryRuntime"
      [] status = 400 /\ code = "invalid_request" -> "ErrInvalidRequest"
      [] status = 400 /\ code = "abort" -> "ErrAbort"
      [] status = 401 -> "ErrAuthentication"
      [] status = 403 -> "ErrAuthorization"
      [] status = 409 /\ code = "contended_transaction" -> "ErrContendedTransaction"
      [] status = 429 -> "ErrThrottling"
      [] status = 440 -> "ErrQueryTimeout"
      [] status = 500 -> "ErrServiceInternal"
      [] status = 503 -> "ErrServiceTimeout"
      [] OTHER -> ""

\* C9: for every (status, code) pair of the table the error returned is the named
\* variant, with the message kept; a 2xx status with no service error gives no
\* error; every case of TestGetErrFauna gets the type the test expects; and an
\* input gets one variant only.
ClassificationTable ==
    cpc = "classified" =>
        /\ (serviceError.present /\ TableVariant(httpStatus, serviceError.code) # "")
                => /\ classified.variant = TableVariant(httpStatus, serviceError.code)
                   /\ classified.message = serviceError.message
        /\ (Is2xx(httpStatus) /\ ~serviceError.present) => classified = NoError
        /\ \A c \in TestGetErrFaunaCases :
                (/\ httpStatus = c.httpStatus
                 /\ serviceError = [present |-> c.present, code |-> c.code, message |-> c.message])
                    => classified.variant = c.errType
        /\ classified.variant \in Variants \cup {"nil"}

\* the contended-transaction case of the test has been classified
ClassificationTableWitness ==
    /\ cpc = "classified"
    /\ httpStatus = 409
    /\ serviceError.code = "contended_transaction"
    /\ serviceError.message # ""
    /\ classified.variant = "ErrContendedTransaction"

\* C10: every error getErrFauna produces, the fallback included, records the HTTP
\* status it was called with, which is never zero.
StatusRecorded ==
    (cpc = "classified" /\ classified.variant # "nil")
        => /\ classified.statusCode = httpStatus
           /\ classified.statusCode # 0

\* a status outside the table has been classified as the fallback error
StatusRecordedWitness ==
    /\ cpc = "classified"
    /\ httpStatus = 404
    /\ classified.variant = "ErrFauna"
    /\ classified.statusCode = 404

----------------------------------------------------------------------------
(* Properties of QueryIterator *)

IterStates ==
    \* a fresh iterator has a next page
    /\ (ipc = "ready" /\ nexts = 0) => HasNext
    \* after a successful Next, HasNext is false exactly when the page's cursor is empty
    /\ lastNext.ok => (~HasNext <=> lastNext.page.After = "")
    /\ pages # << >> => (~HasNext <=> pages[Len(pages)] = "")
    \* pages with the cursors "a", "b", "": three calls, has-more before the third only
    /\ pages = <<"a", "b">> => HasNext
    /\ (pages = <<"a", "b", "">> /\ fails = 0) => (nexts = 3 /\ ~HasNext)

\* C8: HasNext is true on a fresh iterator; after every successful Next it is false
\* exactly when the page returned had an empty cursor; with the cursors "a", "b", ""
\* three Next calls occur; an exhausted iterator never has a next page again.
IteratorStateMachine ==
    []IterStates /\ [][~HasNext => ~HasNext']_vars

\* the three pages "a", "b", "" were returned by three calls, the iterator is exhausted
IteratorStateMachineWitness ==
    /\ pages = <<"a", "b", "">>
    /\ nexts = 3
    /\ fails = 0
    /\ ~HasNext

\* the page the payload d stands for: a page as it is, a mapping with a `data`
\* sequence by its fields, anything else as the single item of a page with no cursor
InterpretedPage(d) ==
    IF d.shape = "page" THEN [After |-> d.after, Data |-> "items"]
    ELSE IF d.shape = "map" /\ d.hasData
    THEN [After |-> IF d.hasAfter THEN d.after ELSE "", Data |-> "items"]
    ELSE [After |-> "", Data |-> "payload"]

\* C13: Next makes a page from the fields of a mapping only when it has a `data`
\* sequence; every other payload, a mapping without `data` included, becomes a
\* single-item page with no cursor, and Next neither fails nor crashes on it.
PayloadInterpretation ==
    /\ ipc # "crashed"
    /\ lastData # NoData => (lastNext.ok /\ lastNext.page = InterpretedPage(lastData))

\* the query a Next call executes: the caller's until a page has been returned, then
\* the continuation from the cursor of the last page returned
PendingQuery ==
    IF pages = << >> THEN OriginalQuery ELSE PaginateQuery(pages[Len(pages)])

\* C14: the first Next executes the caller's query, and every later one the
\* continuation query made from the cursor of the page the last successful Next
\* returned: no cursor is skipped, reused or taken from an older response.
CursorChaining ==
    /\ [](requests # << >> => requests[1] = OriginalQuery)
    /\ [][requests' # requests => requests' = Append(requests, PendingQuery)]_vars

\* three calls, no failure: the caller's query, then the continuations from "a" and "b"
CursorChainingWitness ==
    /\ fails = 0
    /\ requests = <<OriginalQuery, PaginateQuery("a"), PaginateQuery("b")>>
    /\ Len(pages) = 3

\* the last Next call returned the error of its query
LastNextFailed == ipc = "ready" /\ nexts > 0 /\ lastNext = NoNext

\* C19: a Next whose query fails returns no page and leaves the iterator as it was:
\* the pending query is still the one the call executed and HasNext is unchanged, so
\* the same request can be made again.
FailedNextKeepsIterator ==
    /\ [][fails' # fails =>
            (fql' = fql /\ HasNext' = HasNext /\ pages' = pages /\ lastNext' = NoNext)]_vars
    /\ [](LastNextFailed => (HasNext /\ fql = requests[Len(requests)]))

\* the request for the page after "a" failed twice in a row
FailedNextKeepsIteratorWitness ==
    /\ LastNextFailed
    /\ fails = 2
    /\ pages = <<"a">>
    /\ requests = <<OriginalQuery, PaginateQuery("a"), PaginateQuery("a")>>

\* C18: under fair scheduling every call to sync, SetLastTxnTime, GetLastTxnTime and
\* txnTime.string that a goroutine has started eventually returns; a goroutine in the
\* compare-and-retry loop of sync, holding the write lock, is inside such a call, so
\* it leaves the loop
WatermarkCallsReturn ==
    \A p \in Procs : (tpc[p] # "idle") ~> (tpc[p] = "idle")

\* a goroutine waits for the write lock while another, in the loop of sync, holds it
\* and a third call (a read) has been made
WatermarkCallsReturnWitness ==
    \E p, q \in Procs :
        /\ p # q
        /\ tpc[p] = "lock"
        /\ wowner = q
        /\ tpc[q] = "sync_cas"
        /\ op[q].arg > old[q]
        /\ calls = MaxFairCalls

\* C17: the goroutine whose request is in its backoff sleep holds neither side of the
\* transaction-time lock, and while it sleeps the watermark calls of the other
\* goroutines are not stuck: whenever one is in progress, some goroutine can take a
\* step of its watermark call without the sleep ending
Sleeping(p) == tpc[p] = "request" /\ rpc = "sleep"
InWatermarkCall(q) == tpc[q] \notin {"idle", "request"}
WatermarkStep == \E x \in Procs : Lock(x) \/ RLock(x) \/ TxnStep(x)
SleeperHoldsNoLock ==
    \A p \in Procs :
        Sleeping(p) =>
            /\ p \notin readers
            /\ wowner # p
            /\ (\E q \in Procs : InWatermarkCall(q)) => ENABLED WatermarkStep

\* a request sleeps after a 429 while another goroutine holds the write lock
SleeperHoldsNoLockWitness ==
    \E p, q \in Procs :
        /\ Sleeping(p)
        /\ sends >= 1
        /\ wowner = q
        /\ tpc[q] \in {"sync_cas", "set_write"}

----------------------------------------------------------------------------
(* Specifications *)

InitRetry == NewClientRetry /\ TxnIdle /\ ParseIdle /\ ClassIdle /\ IterIdle /\ BackoffIdle

NextRetry ==
    \/ \E n \in 1..MaxStart : DoWithRetryCall(n)
    \/ \E o \in TransportOutcomes : Send(o)
    \/ \E ok \in BOOLEAN : Drain(ok)
    \/ SleepAndRecurse
    \/ Return
    \/ ContextDone

SpecRetry == InitRetry /\ [][NextRetry]_vars

InitTxn == TxnIdle /\ RetryIdle /\ ParseIdle /\ ClassIdle /\ IterIdle /\ BackoffIdle

NextTxn ==
    \/ \E p \in Procs, v \in TxnTimes : CallSync(p, v)
    \/ \E p \in Procs, t \in Times : CallSetLastTxnTime(p, t)
    \/ \E p \in Procs : CallGetLastTxnTime(p)
    \/ \E p \in Procs : CallString(p)
    \/ \E p \in Procs : Lock(p)
    \/ \E p \in Procs : LockAcquired(p)
    \/ \E p \in Procs : SyncLoad(p)
    \/ \E p \in Procs : SyncCas(p)
    \/ \E p \in Procs : SetCompare(p)
    \/ \E p \in Procs : SetWrite(p)
    \/ \E p \in Procs : Unlock(p)
    \/ \E p \in Procs : RLock(p)
    \/ \E p \in Procs : GetRead(p)
    \/ \E p \in Procs : StringLoad(p)
    \/ \E p \in Procs : RUnlock(p)

SpecTxn == InitTxn /\ [][NextTxn]_vars

\* fair scheduling: a goroutine that can take a step inside its call takes it, and a
\* goroutine waiting in Lock or RLock gets the lock if the lock stays free for it;
\* nothing obliges a goroutine to start a call
TxnFairness ==
    /\ \A p \in Procs : WF_vars(TxnStep(p))
    /\ \A p \in Procs : WF_vars(Lock(p))
    /\ \A p \in Procs : WF_vars(RLock(p))

\* the watermark calls, at most MaxFairCalls of them
NextTxnFair ==
    \/ calls < MaxFairCalls /\ \E p \in Procs, v \in TxnTimes : CallSync(p, v)
    \/ calls < MaxFairCalls /\ \E p \in Procs, t \in Times : CallSetLastTxnTime(p, t)
    \/ calls < MaxFairCalls /\ \E p \in Procs : CallGetLastTxnTime(p)
    \/ calls < MaxFairCalls /\ \E p \in Procs : CallString(p)
    \/ \E p \in Procs : Lock(p)
    \/ \E p \in Procs : RLock(p)
    \/ \E p \in Procs : TxnStep(p)

SpecTxnFair == InitTxn /\ [][NextTxnFair]_vars /\ TxnFairness

\* the watermark calls made directly, not by the request (which makes two: string
\* and sync)
RequestMade == rpc # "idle" \/ \E q \in Procs : op[q].kind = "query"
DirectCalls == IF RequestMade THEN calls - 2 ELSE calls

\* one request through the client (string, doWithRetry, sync) among at most
\* MaxQueryCalls watermark calls made directly
NextQuery ==
    \/ \E p \in Procs : CallQuery(p)
    \/ \E p \in Procs : QuerySend(p)
    \/ \E o \in TransportOutcomes : Send(o)
    \/ \E ok \in BOOLEAN : Drain(ok)
    \/ SleepAndRecurse
    \/ Return
    \/ \E p \in Procs, present \in BOOLEAN, v \in TxnTimes : QueryResponse(p, present, v)
    \/ DirectCalls < MaxQueryCalls /\ \E p \in Procs, v \in TxnTimes : CallSync(p, v)
    \/ DirectCalls < MaxQueryCalls /\ \E p \in Procs, t \in Times : CallSetLastTxnTime(p, t)
    \/ DirectCalls < MaxQueryCalls /\ \E p \in Procs : CallGetLastTxnTime(p)
    \/ DirectCalls < MaxQueryCalls /\ \E p \in Procs : CallString(p)
    \/ \E p \in Procs : Lock(p)
    \/ \E p \in Procs : RLock(p)
    \/ \E p \in Procs : TxnStep(p)

SpecQuery == InitTxn /\ [][NextQuery]_vars

InitParse == NewTemplate /\ RetryIdle /\ TxnIdle /\ ClassIdle /\ IterIdle /\ BackoffIdle

NextParse == ParseCall

SpecParse == InitParse /\ [][NextParse]_vars

InitClassify == ResponseToClassify /\ RetryIdle /\ TxnIdle /\ ParseIdle /\ IterIdle /\ BackoffIdle

NextClassify == Classify

SpecClassify == InitClassify /\ [][NextClassify]_vars

InitIter == Paginate /\ RetryIdle /\ TxnIdle /\ ParseIdle /\ ClassIdle /\ BackoffIdle

NextIter ==
    \/ NextQueryError
    \/ \E d \in Payloads : NextPage(d)

SpecIter == InitIter /\ [][NextIter]_vars

InitBackoff ==
    BackoffInputs /\ RetryIdle /\ TxnIdle /\ ParseIdle /\ ClassIdle /\ IterIdle

NextBackoff == BackoffCall

SpecBackoff == InitBackoff /\ [][NextBackoff]_vars

====
